---- MODULE Spec2Model ----
(***************************************************************************)
(* Incremental incident polling of the Analytics & SIEM connector          *)
(* (Templates/Integrations/AnalyticsAndSIEM/AnalyticsAndSIEM.py):          *)
(* main() loads the "last run" cursor from the host, fetch_incidents       *)
(* builds the time-window request, maps the returned events to incidents,  *)
(* stores the new cursor with demisto.setLastRun and hands the incidents   *)
(* to the host with demisto.incidents.                                     *)
(*                                                                         *)
(* Timestamps are modelled as records [t, shape]: t is the instant, shape  *)
(* is the textual form that decides whether datetime.strptime accepts the  *)
(* string under timestamp_format ('%Y-%m-%dT%H:%M:%S.%fZ"'):               *)
(*   "zq"       a string that matches timestamp_format                     *)
(*   "iso"      a timestamp string that does not match timestamp_format    *)
(*   "datetime" a Python datetime object (result of strptime)              *)
(*   "none"     Python None / a missing field                              *)
(***************************************************************************)
EXTENDS Integers, Sequences, FiniteSets, TLC

\* ---------------------------------------------------------------- bounds
MaxTime == 3
MaxEvents == 2
MaxCycles == 3
MaxScore == 10
MaxThreshold == 5
MaxAssignees == 1
MaxList == 2
MaxRecords == 2
MaxAttempts == 2
MaxArtifacts == 2
MaxAssertions == 2

\* -------------------------------------------------------------- constants
Procs == {1}

NoneTs == [t |-> 0, shape |-> "none"]

\* demisto.params().get('fetch_time'): unset (0) or a lookback of that many
\* clock units ("N hours").
FetchTimes == {0, 2}

\* main() builds the Client without max_results, so Client.max_results is
\* None (0 stands for None; both are falsy for assign_params).
max_results == 0

\* ---------------------------------------------------------------- state
VARIABLES
    fetch_time,     \* configured lookback window
    inclusive,      \* upstream semantics of sinceTime: >= (TRUE) or > (FALSE)
    createdFormat,  \* textual form of the upstream's 'created' strings
    now,            \* wall clock
    upstream,       \* events held by the upstream service
    lastRun,        \* host "last run" store (demisto.getLastRun/setLastRun)
    delivered,      \* per event id: times handed to the host as an incident
    cycles,         \* number of fetch-incidents invocations started
    okRun,          \* value of the store after the last successful cycle
    pc,             \* position of each invocation
    last_run,       \* fetch_incidents argument last_run
    request,        \* params of the list request sent in this invocation
    events,         \* raw_response.get('event', [])
    saves,          \* demisto.setLastRun calls in this invocation
    reports,        \* demisto.incidents calls in this invocation
    startRun,       \* value of the store when the invocation started
    outcome,        \* "none", "running", "ok" or "error"
    fetch_max_results,  \* Client._fetch_max_results (0 stands for None)
    threshold,      \* score normalizer: the client's configured threshold
    call,           \* the latest calculate_dbot_score call and its verdict
    prev,           \* the call before it
    raw,            \* build_context / incident mapping: the latest input
    context,        \* build_context(raw)
    mapped,         \* the incidents fetch_incidents builds from raw
    prevRaw,        \* the input before it
    prevContext,    \* build_context(prevRaw)
    invoked,        \* command dispatch: the command and the upstream response
    cpc,            \* where the invocation stands
    ret,            \* what the command handler returned or raised
    entries,        \* the entries reported to the host, in order
    transport,      \* authentication client: the command, and what the
                    \* network and the upstream will answer
    hpc,            \* where that invocation stands
    attempts,       \* the calls of requests.request so far
    data,           \* what _http_request returned to the command
    exc,            \* the exception on its way to main, "none" if none
    output,         \* the entries reported to the host, in order
    pcmd,           \* PolySwarm: the command and the artifacts of its argument
    ppc,            \* where that invocation stands
    idx,            \* url_reputation: the artifact the loop is at
    submitted,      \* the artifacts handed to polyswarm_api.submit
    scanned,        \* the assertions of the results scanned, in order
    command_results,    \* url_reputation: the results collected so far
    pret,           \* what the handler returned to main
    pout,           \* the entries reported to the host, in order
    asked,          \* test-module and lock commands: the command, its
                    \* argument and the upstream's answer
    apc,            \* where that invocation stands
    aret,           \* what the handler returned or raised
    aout            \* the entries reported to the host, in order

envVars == <<fetch_time, inclusive, createdFormat, now, upstream>>
hostVars == <<lastRun, delivered, cycles, okRun>>
localVars == <<pc, last_run, request, events, saves, reports, startRun, outcome>>
vars == <<fetch_time, inclusive, createdFormat, now, upstream, lastRun,
          delivered, cycles, okRun, pc, last_run, request, events, saves,
          reports, startRun, outcome, fetch_max_results,
          threshold, call, prev, raw, context, mapped, prevRaw, prevContext,
          invoked, cpc, ret, entries,
          transport, hpc, attempts, data, exc, output,
          pcmd, ppc, idx, submitted, scanned, command_results, pret, pout,
          asked, apc, aret, aout>>

pollVars == <<fetch_time, inclusive, createdFormat, now, upstream, lastRun,
              delivered, cycles, okRun, pc, last_run, request, events, saves,
              reports, startRun, outcome, fetch_max_results>>
scoreVars == <<threshold, call, prev>>
contextVars == <<raw, context, mapped, prevRaw, prevContext>>
commandVars == <<invoked, cpc, ret, entries>>
httpVars == <<transport, hpc, attempts, data, exc, output>>
polyVars == <<pcmd, ppc, idx, submitted, scanned, command_results, pret, pout>>
replyVars == <<asked, apc, aret, aout>>

\* what the poller never writes
otherVars ==
    <<fetch_max_results, scoreVars, contextVars, commandVars, httpVars,
      polyVars, replyVars>>

\* ---------------------------------------------------------------- helpers
Max(a, b) == IF a >= b THEN a ELSE b

\* `not last_run`
Falsy(ts) == ts.shape = "none"

\* datetime.strptime(s, timestamp_format) succeeds only on matching strings
StrptimeOk(ts) == ts.shape = "zq"
Strptime(ts) == [t |-> ts.t, shape |-> "datetime"]

\* dt.strftime(timestamp_format)
Strftime(t) == [t |-> t, shape |-> "zq"]

\* parse_date_range(fetch_time)[0]: now minus the lookback window
ParseDateRangeOk(ft) == ft # 0
ParseDateRange(ft, clock) == Max(clock - ft, 0)

\* assign_params(sinceTime=.., fromTime=.., limit=..): falsy values dropped
AssignParams(since, before, limit) ==
    [sent |-> TRUE,
     keys |-> (IF Falsy(since) THEN {} ELSE {"sinceTime"})
              \cup (IF Falsy(before) THEN {} ELSE {"fromTime"})
              \cup (IF limit = 0 THEN {} ELSE {"limit"}),
     sinceTime |-> since,
     limit |-> limit]

NoRequest == [sent |-> FALSE, keys |-> {}, sinceTime |-> NoneTs, limit |-> 0]

\* Client.list_events_request(event_created_date_after=.., max_results=..)
ListEventsRequest(since, limit) == AssignParams(since, NoneTs, limit)

\* the upstream's answer to a request: the events inside the time window
Matching(req) ==
    IF "sinceTime" \in req.keys
    THEN {e \in upstream : IF inclusive THEN e.at >= req.sinceTime.t
                                         ELSE e.at > req.sinceTime.t}
    ELSE upstream

Min(a, b) == IF a <= b THEN a ELSE b

\* the upstream serves at most `limit` records of a listing
Truncate(req, s) ==
    IF "limit" \in req.keys THEN SubSeq(s, 1, Min(req.limit, Len(s))) ELSE s

\* every order in which the upstream may list a set of events
Orders(S) ==
    {s \in [1..Cardinality(S) -> S] : \A i, j \in 1..Cardinality(S) :
                                          i # j => s[i] # s[j]}

\* the incident built from one event (lines 224-228)
Incident(event) == [occurred |-> event.created, rawJSON |-> event.id]

Incidents(evs) == [i \in 1..Len(evs) |-> Incident(evs[i])]

\* incidents[-1].get('occurred')
LastIncidentTimestamp(evs) == Incidents(evs)[Len(evs)].occurred

\* ------------------------------------------------------------------ Init
PollInit ==
    /\ fetch_time \in FetchTimes
    /\ inclusive \in BOOLEAN
    /\ createdFormat \in {"zq", "iso"}
    /\ now = 1
    /\ upstream = {}
    /\ lastRun = NoneTs
    /\ delivered = [i \in 1..MaxEvents |-> 0]
    /\ cycles = 0
    /\ okRun = NoneTs
    /\ pc = [p \in Procs |-> "idle"]
    /\ last_run = [p \in Procs |-> NoneTs]
    /\ request = [p \in Procs |-> NoRequest]
    /\ events = [p \in Procs |-> << >>]
    /\ saves = [p \in Procs |-> 0]
    /\ reports = [p \in Procs |-> 0]
    /\ startRun = [p \in Procs |-> NoneTs]
    /\ outcome = [p \in Procs |-> "none"]

\* the score normalizer before any call
NoCall == [made |-> FALSE, score |-> 0, explicit |-> 0, used |-> 0, verdict |-> 0]

ScoreIdle ==
    /\ threshold = 50
    /\ call = NoCall
    /\ prev = NoCall

\* build_context before any call
NoInput == [made |-> FALSE, isList |-> TRUE, items |-> << >>]

ContextIdle ==
    /\ raw = NoInput
    /\ context = NoInput
    /\ mapped = << >>
    /\ prevRaw = NoInput
    /\ prevContext = NoInput

\* command dispatch before any invocation
NoCommand ==
    [connector |-> "none", command |-> "none", records |-> 0,
     warningExits |-> FALSE]

NoReturn == [kind |-> "none", hr |-> "", context |-> 0, raw |-> [records |-> 0]]

CommandIdle ==
    /\ invoked = NoCommand
    /\ cpc = "idle"
    /\ ret = NoReturn
    /\ entries = << >>

\* the authentication client before any invocation
NoTransport ==
    [command |-> "none", failure |-> "none", status |-> 0, body |-> "none",
     records |-> 0]

NoData == [returned |-> FALSE, body |-> "none", records |-> 0]

HttpIdle ==
    /\ transport = NoTransport
    /\ hpc = "idle"
    /\ attempts = 0
    /\ data = NoData
    /\ exc = "none"
    /\ output = << >>

\* PolySwarm before any invocation
NoPolyCommand == [command |-> "none", artifacts |-> << >>]

PolyIdle ==
    /\ pcmd = NoPolyCommand
    /\ ppc = "idle"
    /\ idx = 1
    /\ submitted = {}
    /\ scanned = << >>
    /\ command_results = << >>
    /\ pret = "none"
    /\ pout = << >>

\* the test-module and lock commands before any invocation
NoAsk == [connector |-> "none", command |-> "none", target |-> "", answer |-> "none"]

NoReply == [kind |-> "none", hr |-> "", locked |-> "none", id |-> ""]

ReplyIdle ==
    /\ asked = NoAsk
    /\ apc = "idle"
    /\ aret = NoReply
    /\ aout = << >>

\* the parts of the model a specification does not exercise
OthersIdle ==
    /\ ScoreIdle
    /\ ContextIdle
    /\ CommandIdle
    /\ HttpIdle
    /\ PolyIdle
    /\ ReplyIdle

\* main(): the Client is built without max_results
Init ==
    /\ PollInit
    /\ fetch_max_results = max_results
    /\ OthersIdle

\* ----------------------------------------------------------- environment
AllIdle == \A p \in DOMAIN pc : pc[p] = "idle"

Tick ==
    /\ AllIdle
    /\ now < MaxTime
    /\ now' = now + 1
    /\ UNCHANGED <<fetch_time, inclusive, createdFormat, upstream>>
    /\ UNCHANGED otherVars
    /\ UNCHANGED hostVars
    /\ UNCHANGED localVars

\* the upstream records a new event, stamped with the current time; the
\* 'created' field may be missing from what it serves
CreateEvent ==
    /\ AllIdle
    /\ Cardinality(upstream) < MaxEvents
    /\ \E hasCreated \in BOOLEAN :
          upstream' = upstream \cup
              {[id |-> Cardinality(upstream) + 1,
                at |-> now,
                created |-> IF hasCreated
                            THEN [t |-> now, shape |-> createdFormat]
                            ELSE NoneTs]}
    /\ UNCHANGED <<fetch_time, inclusive, createdFormat, now>>
    /\ UNCHANGED otherVars
    /\ UNCHANGED hostVars
    /\ UNCHANGED localVars

\* ------------------------------------------------------- fetch-incidents
\* main(): commands[command](client, last_run=demisto.getLastRun())
Begin(p) ==
    /\ pc[p] = "idle"
    /\ cycles' = cycles + 1
    /\ last_run' = [last_run EXCEPT ![p] = lastRun]
    /\ startRun' = [startRun EXCEPT ![p] = lastRun]
    /\ request' = [request EXCEPT ![p] = NoRequest]
    /\ events' = [events EXCEPT ![p] = << >>]
    /\ saves' = [saves EXCEPT ![p] = 0]
    /\ reports' = [reports EXCEPT ![p] = 0]
    /\ outcome' = [outcome EXCEPT ![p] = "running"]
    /\ pc' = [pc EXCEPT ![p] = "fetch"]
    /\ UNCHANGED envVars
    /\ UNCHANGED otherVars
    /\ UNCHANGED <<lastRun, delivered, okRun>>

\* the host starts an invocation
Start(p) ==
    /\ cycles < MaxCycles
    /\ Begin(p)

\* the process of the invocation ends: its local variables are gone
Exit(p) ==
    /\ last_run' = [last_run EXCEPT ![p] = NoneTs]
    /\ events' = [events EXCEPT ![p] = << >>]

\* the exception handler of main(): return_error, nothing else is touched
Abort(p) ==
    /\ pc' = [pc EXCEPT ![p] = "idle"]
    /\ outcome' = [outcome EXCEPT ![p] = "error"]
    /\ Exit(p)

\* last_run_string of lines 213-217, when it can be computed
SinceOk(lr) ==
    IF Falsy(lr) THEN ParseDateRangeOk(fetch_time) ELSE StrptimeOk(lr)

\* the first-run branch forgets the lookback window
SinceNoLookback(lr) ==
    IF Falsy(lr) THEN NoneTs ELSE Strptime(lr)

Since(lr) ==
    IF Falsy(lr) THEN Strftime(ParseDateRange(fetch_time, now))
                 ELSE Strptime(lr)

\* lines 213-217 raise: parse_date_range on a missing fetch_time, or
\* strptime on a stored value that does not match timestamp_format
FetchRaise(p) ==
    /\ pc[p] = "fetch"
    /\ ~SinceOk(last_run[p])
    /\ Abort(p)
    /\ UNCHANGED envVars
    /\ UNCHANGED otherVars
    /\ UNCHANGED hostVars
    /\ UNCHANGED <<request, saves, reports, startRun>>

\* lines 219-221: the request is sent and the upstream answers with the
\* matching events in some order
FetchOk(p) ==
    /\ pc[p] = "fetch"
    /\ SinceOk(last_run[p])
    /\ LET req == ListEventsRequest(Since(last_run[p]), fetch_max_results)
       IN /\ request' = [request EXCEPT ![p] = req]
          /\ \E batch \in Orders(Matching(req)) :
                events' = [events EXCEPT ![p] = Truncate(req, batch)]
    /\ pc' = [pc EXCEPT ![p] = "map"]
    /\ UNCHANGED envVars
    /\ UNCHANGED otherVars
    /\ UNCHANGED hostVars
    /\ UNCHANGED <<last_run, saves, reports, startRun, outcome>>

\* lines 219-221: the request is sent and _http_request raises (transport
\* error, timeout, error status, unparsable body)
FetchFail(p) ==
    /\ pc[p] = "fetch"
    /\ SinceOk(last_run[p])
    /\ request' = [request EXCEPT ![p] =
                      ListEventsRequest(Since(last_run[p]), fetch_max_results)]
    /\ Abort(p)
    /\ UNCHANGED envVars
    /\ UNCHANGED otherVars
    /\ UNCHANGED hostVars
    /\ UNCHANGED <<saves, reports, startRun>>

\* line 222: `if events:`
NonEmptyAlways(evs) == TRUE

NonEmpty(evs) == evs # << >>

\* lines 222-230: `if events:` decides whether the cursor is saved
Map(p) ==
    /\ pc[p] = "map"
    /\ pc' = [pc EXCEPT ![p] = IF NonEmpty(events[p]) THEN "save" ELSE "deliver"]
    /\ UNCHANGED envVars
    /\ UNCHANGED otherVars
    /\ UNCHANGED hostVars
    /\ UNCHANGED <<last_run, request, events, saves, reports, startRun, outcome>>

\* the store keeps the newer of the two values
StoredKeepsNewest(old, new) == IF new.t >= old.t THEN new ELSE old

\* demisto.setLastRun: the value handed over replaces the stored one
Stored(old, new) == new

\* line 231: demisto.setLastRun(last_incident_timestamp)
Save(p) ==
    /\ pc[p] = "save"
    /\ lastRun' = Stored(lastRun, LastIncidentTimestamp(events[p]))
    /\ saves' = [saves EXCEPT ![p] = @ + 1]
    /\ pc' = [pc EXCEPT ![p] = "deliver"]
    /\ UNCHANGED envVars
    /\ UNCHANGED otherVars
    /\ UNCHANGED <<delivered, cycles, okRun>>
    /\ UNCHANGED <<last_run, request, events, reports, startRun, outcome>>

\* the ids of the events of a batch
BatchIds(evs) == {evs[i].id : i \in 1..Len(evs)}

\* line 232: demisto.incidents(incidents), then the function returns
Deliver(p) ==
    /\ pc[p] = "deliver"
    /\ delivered' = [i \in 1..MaxEvents |->
                        IF i \in BatchIds(events[p]) THEN delivered[i] + 1
                                                     ELSE delivered[i]]
    /\ reports' = [reports EXCEPT ![p] = @ + 1]
    /\ okRun' = lastRun
    /\ pc' = [pc EXCEPT ![p] = "idle"]
    /\ outcome' = [outcome EXCEPT ![p] = "ok"]
    /\ Exit(p)
    /\ UNCHANGED envVars
    /\ UNCHANGED otherVars
    /\ UNCHANGED <<lastRun, cycles>>
    /\ UNCHANGED <<request, saves, startRun>>

\* line 232: demisto.incidents raises (the host does not take the batch)
DeliverFail(p) ==
    /\ pc[p] = "deliver"
    /\ Abort(p)
    /\ UNCHANGED envVars
    /\ UNCHANGED otherVars
    /\ UNCHANGED hostVars
    /\ UNCHANGED <<request, saves, reports, startRun>>

Next ==
    \/ Tick
    \/ CreateEvent
    \/ \E p \in Procs : Start(p)
    \/ \E p \in Procs : FetchRaise(p)
    \/ \E p \in Procs : FetchOk(p)
    \/ \E p \in Procs : FetchFail(p)
    \/ \E p \in Procs : Map(p)
    \/ \E p \in Procs : Save(p)
    \/ \E p \in Procs : Deliver(p)
    \/ \E p \in Procs : DeliverFail(p)

Spec == Init /\ [][Next]_vars

\* two fetch-incidents invocations of the same instance that may overlap
Pollers == {1, 2}

InitOverlap ==
    /\ fetch_time \in FetchTimes
    /\ inclusive \in BOOLEAN
    /\ createdFormat \in {"zq", "iso"}
    /\ now = 1
    /\ upstream = {}
    /\ lastRun = NoneTs
    /\ delivered = [i \in 1..MaxEvents |-> 0]
    /\ cycles = 0
    /\ okRun = NoneTs
    /\ pc = [p \in Pollers |-> "idle"]
    /\ last_run = [p \in Pollers |-> NoneTs]
    /\ request = [p \in Pollers |-> NoRequest]
    /\ events = [p \in Pollers |-> << >>]
    /\ saves = [p \in Pollers |-> 0]
    /\ reports = [p \in Pollers |-> 0]
    /\ startRun = [p \in Pollers |-> NoneTs]
    /\ outcome = [p \in Pollers |-> "none"]
    /\ fetch_max_results = max_results
    /\ OthersIdle

\* the host starts each of the two invocations once
StartOnce(p) ==
    /\ cycles < Cardinality(Pollers)
    /\ outcome[p] = "none"
    /\ Begin(p)

NextOverlap ==
    \/ Tick
    \/ CreateEvent
    \/ \E p \in Pollers : StartOnce(p)
    \/ \E p \in Pollers : FetchRaise(p)
    \/ \E p \in Pollers : FetchOk(p)
    \/ \E p \in Pollers : FetchFail(p)
    \/ \E p \in Pollers : Map(p)
    \/ \E p \in Pollers : Save(p)
    \/ \E p \in Pollers : Deliver(p)
    \/ \E p \in Pollers : DeliverFail(p)

SpecOverlap == InitOverlap /\ [][NextOverlap]_vars

\* fetch_incidents run with a Client built with max_results=N
\* (Client.__init__, lines 23-28)
InitLimit ==
    /\ PollInit
    /\ fetch_max_results \in 1..MaxEvents
    /\ OthersIdle

\* the poller at rest, for the specifications of the other components
PollIdle ==
    /\ PollInit
    /\ fetch_time = 0
    /\ inclusive = FALSE
    /\ createdFormat = "iso"
    /\ fetch_max_results = max_results

SpecLimit == InitLimit /\ [][Next]_vars

TypeOK ==
    /\ now \in 1..MaxTime
    /\ cycles \in 0..MaxCycles
    /\ \A p \in Procs : pc[p] \in {"idle", "fetch", "map", "save", "deliver"}

\* ======================================================= score normalizer
\* Client.calculate_dbot_score(score, threshold=None) of the threat
\* intelligence connector: Unknown 0, Benign 1, Suspicious 2, Malicious 3.
Scores == (-1..MaxScore) \cup {40, 100}
Thresholds == (1..MaxThreshold) \cup {50}

\* the boundaries are exclusive instead of inclusive
NormalizeStrict(s, T) ==
    IF s < 0 THEN 0
    ELSE IF 2 * s <= T THEN 1
    ELSE IF s <= T THEN 2
    ELSE 3

\* the Suspicious and Benign bands are swapped
NormalizeSwapped(s, T) ==
    IF s < 0 THEN 0
    ELSE IF 2 * s < T THEN 2
    ELSE IF s < T THEN 1
    ELSE 3

\* raw_score < 0 Unknown; < threshold/2 Benign; < threshold Suspicious;
\* otherwise Malicious
Normalize(s, T) ==
    IF s < 0 THEN 0
    ELSE IF 2 * s < T THEN 1
    ELSE IF s < T THEN 2
    ELSE 3

\* the threshold a call uses: the explicit one if given, else the default
EffectiveThreshold(explicit, default) ==
    IF explicit # 0 THEN explicit ELSE default

\* an explicit threshold is kept as the new default
ThresholdAfterPersist(explicit, default) ==
    IF explicit # 0 THEN explicit ELSE default

\* the configured default after a call: untouched
ThresholdAfter(explicit, default) == default

CalculateDbotScore ==
    /\ \E s \in Scores, t \in {0} \cup Thresholds :
          LET used == EffectiveThreshold(t, threshold)
          IN /\ call' = [made |-> TRUE, score |-> s, explicit |-> t,
                         used |-> used, verdict |-> Normalize(s, used)]
             /\ threshold' = ThresholdAfter(t, threshold)
    /\ prev' = call
    /\ UNCHANGED pollVars
    /\ UNCHANGED contextVars
    /\ UNCHANGED commandVars
    /\ UNCHANGED httpVars
    /\ UNCHANGED <<polyVars, replyVars>>

\* CLIENT = Client(BASE_URL, threshold=..)
InitScore ==
    /\ PollIdle
    /\ threshold \in Thresholds
    /\ call = NoCall
    /\ prev = NoCall
    /\ ContextIdle
    /\ CommandIdle
    /\ HttpIdle
    /\ PolyIdle
    /\ ReplyIdle

NextScore ==
    \/ CalculateDbotScore

SpecScore == InitScore /\ [][NextScore]_vars

\* ========================================================= build_context
\* A raw event is a function from the keys present in it to their values;
\* Python None is the string "None".
None == "None"

\* the event of the build_context docstring (lines 162-165), with the two
\* keys fetch_incidents reads
BaseUser == [name |-> "user1", id |-> "142"]

BaseEvent ==
    [eventId |-> "1", description |-> "event description",
     createdAt |-> "2019-09-09T08:30:07.959533", isActive |-> "True",
     assignee |-> <<BaseUser>>, title |-> "title", created |-> "created"]

ContextKeys == {"eventId", "description", "createdAt", "isActive", "assignee"}

IncidentKeys == {"title", "created"}

Users ==
    {[k \in S |-> BaseUser[k]] : S \in SUBSET {"name", "id"}}
        \cup {[BaseUser EXCEPT !.name = "user2"], [BaseUser EXCEPT !.id = "143"]}

AssigneeLists == UNION {[1..n -> Users] : n \in 0..MaxAssignees}

\* events with every subset of the keys build_context reads, with every
\* subset of the keys fetch_incidents reads, with no key at all, and events
\* that differ from the full one in one value
RawEvents ==
    {[k \in S \cup IncidentKeys |-> BaseEvent[k]] : S \in SUBSET ContextKeys}
        \cup {[k \in ContextKeys \cup T |-> BaseEvent[k]] : T \in SUBSET IncidentKeys}
        \cup {[k \in {} |-> BaseEvent[k]]}
        \cup {[BaseEvent EXCEPT !.eventId = "2"],
              [BaseEvent EXCEPT !.description = "other"],
              [BaseEvent EXCEPT !.createdAt = "2019-09-10T08:30:07.959533"],
              [BaseEvent EXCEPT !.isActive = "False"]}
        \cup {[BaseEvent EXCEPT !.assignee = a] : a \in AssigneeLists}

ListItems ==
    {BaseEvent, [BaseEvent EXCEPT !.eventId = "2"],
     [k \in {"eventId"} |-> BaseEvent[k]]}

RawLists == UNION {[1..n -> ListItems] : n \in 0..MaxList}

Inputs ==
    {[made |-> TRUE, isList |-> FALSE, items |-> <<e>>] : e \in RawEvents}
        \cup {[made |-> TRUE, isList |-> TRUE, items |-> l] : l \in RawLists}

\* a missing key is a KeyError instead of None
GetStrict(d, k) == IF k \in DOMAIN d THEN d[k] ELSE "KeyError"

\* d.get(k)
Get(d, k) == IF k \in DOMAIN d THEN d[k] ELSE None

\* event.get('assignee', [])
GetList(d, k) == IF k \in DOMAIN d THEN d[k] ELSE << >>

\* the user's ID is read from 'name'
BuildUserLossy(user) == [Name |-> Get(user, "name"), ID |-> Get(user, "name")]

\* lines 183-186 of build_dict
BuildUser(user) == [Name |-> Get(user, "name"), ID |-> Get(user, "id")]

\* build_dict, lines 168-188
BuildDict(event) ==
    [ID |-> Get(event, "eventId"),
     Description |-> Get(event, "description"),
     Created |-> Get(event, "createdAt"),
     IsActive |-> Get(event, "isActive"),
     Assignee |-> LET users == GetList(event, "assignee")
                  IN [i \in 1..Len(users) |-> BuildUser(users[i])]]

\* build_context, lines 190-192: a list maps to a list, a dict to a dict
BuildContext(in) ==
    [made |-> TRUE, isList |-> in.isList,
     items |-> [i \in 1..Len(in.items) |-> BuildDict(in.items[i])]]

\* fetch_incidents, lines 224-228
MapIncident(event) ==
    [name |-> Get(event, "title"),
     occurred |-> Get(event, "created"),
     rawJSON |-> event]

Build ==
    /\ \E in \in Inputs :
          /\ raw' = in
          /\ context' = BuildContext(in)
          /\ mapped' = [i \in 1..Len(in.items) |-> MapIncident(in.items[i])]
    /\ prevRaw' = raw
    /\ prevContext' = context
    /\ UNCHANGED pollVars
    /\ UNCHANGED scoreVars
    /\ UNCHANGED commandVars
    /\ UNCHANGED httpVars
    /\ UNCHANGED <<polyVars, replyVars>>

InitContext ==
    /\ PollIdle
    /\ ScoreIdle
    /\ ContextIdle
    /\ CommandIdle
    /\ HttpIdle
    /\ PolyIdle
    /\ ReplyIdle

NextContext ==
    \/ Build

SpecContext == InitContext /\ [][NextContext]_vars

\* ======================================================= command dispatch
\* One invocation of a command that queries the upstream, from the handler
\* main() picks to the entries the host receives. The upstream answers 200
\* with a body that holds invoked.records records.
QueryCommands ==
    {[connector |-> "siem", command |-> "list-events"],
     [connector |-> "siem", command |-> "get-event"],
     [connector |-> "siem", command |-> "query"],
     [connector |-> "auth", command |-> "list-credentials"],
     [connector |-> "deti", command |-> "ip"],
     [connector |-> "deti", command |-> "url"],
     [connector |-> "deti", command |-> "file"],
     [connector |-> "deti", command |-> "domain"]}

\* the raw response of the upstream
RawResponse == [records |-> invoked.records]

\* the entries of the host SDK: return_outputs, return_warning, return_error
ReturnOutputs(es, hr, ctx, rawResponse) ==
    Append(es, [type |-> "note", hr |-> hr, context |-> ctx, raw |-> rawResponse])

ReturnWarning(es, message) ==
    Append(es, [type |-> "warning", hr |-> message, context |-> 0,
                raw |-> [records |-> 0]])

ReturnError(es, message) ==
    Append(es, [type |-> "error", hr |-> message, context |-> 0,
                raw |-> [records |-> 0]])

\* a handler returns (human_readable, context, raw_response)
Returned(hr, ctx, rawResponse) ==
    [kind |-> "tuple", hr |-> hr, context |-> ctx, raw |-> rawResponse]

\* a handler raises DemistoException(message)
Raised(message) ==
    [kind |-> "raised", hr |-> message, context |-> 0, raw |-> [records |-> 0]]

\* demisto.command() and demisto.args() of an invocation
Invoke ==
    /\ cpc = "idle"
    /\ \E c \in QueryCommands, n \in 0..MaxRecords, w \in BOOLEAN :
          invoked' = [connector |-> c.connector, command |-> c.command,
                      records |-> n, warningExits |-> w]
    /\ cpc' = "handler"
    /\ UNCHANGED <<ret, entries>>
    /\ UNCHANGED <<pollVars, scoreVars, contextVars, httpVars, polyVars, replyVars>>

\* list_events, lines 237-255
ListEvents ==
    /\ cpc = "handler"
    /\ invoked.connector = "siem"
    /\ invoked.command = "list-events"
    /\ ret' = IF invoked.records > 0
              THEN Returned("List events", invoked.records, RawResponse)
              ELSE Raised("Could not find any events.")
    /\ cpc' = "main"
    /\ UNCHANGED <<invoked, entries>>
    /\ UNCHANGED <<pollVars, scoreVars, contextVars, httpVars, polyVars, replyVars>>

\* get_event, lines 258-277
GetEvent ==
    /\ cpc = "handler"
    /\ invoked.connector = "siem"
    /\ invoked.command = "get-event"
    /\ ret' = IF invoked.records > 0
              THEN Returned("Event", invoked.records, RawResponse)
              ELSE Raised("Could not find event")
    /\ cpc' = "main"
    /\ UNCHANGED <<invoked, entries>>
    /\ UNCHANGED <<pollVars, scoreVars, contextVars, httpVars, polyVars, replyVars>>

\* query, lines 339-358: with no events it warns and, unless the warning
\* ends the process, falls off the end and returns None
Query ==
    /\ cpc = "handler"
    /\ invoked.connector = "siem"
    /\ invoked.command = "query"
    /\ IF invoked.records > 0
       THEN /\ ret' = Returned("Results for given query", invoked.records,
                               RawResponse)
            /\ cpc' = "main"
            /\ UNCHANGED entries
       ELSE /\ entries' = ReturnWarning(entries,
                                        "Could not find any results for given query")
            /\ ret' = NoReturn
            /\ cpc' = IF invoked.warningExits THEN "done" ELSE "main"
    /\ UNCHANGED invoked
    /\ UNCHANGED <<pollVars, scoreVars, contextVars, httpVars, polyVars, replyVars>>

\* main of the analytics connector, lines 397-406: the handler's result is
\* unpacked into three names and handed to return_outputs; any exception,
\* the TypeError of unpacking None included, goes to return_error
MainSIEM ==
    /\ cpc = "main"
    /\ invoked.connector = "siem"
    /\ entries' = CASE ret.kind = "tuple" ->
                          ReturnOutputs(entries, ret.hr, ret.context, ret.raw)
                    [] ret.kind = "raised" -> ReturnError(entries, ret.hr)
                    [] OTHER -> ReturnError(entries, "TypeError")
    /\ cpc' = "done"
    /\ UNCHANGED <<invoked, ret>>
    /\ UNCHANGED <<pollVars, scoreVars, contextVars, httpVars, polyVars, replyVars>>

\* list_credentials of the authentication connector, lines 376-390: it
\* reports its own outputs (the context stands in for the raw response)
ListCredentials ==
    /\ cpc = "handler"
    /\ invoked.connector = "auth"
    /\ invoked.command = "list-credentials"
    /\ IF invoked.records > 0
       THEN /\ entries' = ReturnOutputs(entries, "Credentials list.",
                                        invoked.records, RawResponse)
            /\ cpc' = "main"
       ELSE /\ entries' = ReturnWarning(entries,
                                        "Could not find any credentials.")
            /\ cpc' = IF invoked.warningExits THEN "done" ELSE "main"
    /\ ret' = NoReturn
    /\ UNCHANGED invoked
    /\ UNCHANGED <<pollVars, scoreVars, contextVars, httpVars, polyVars, replyVars>>

\* main of the authentication connector, lines 412-418: the handler's
\* return value is dropped, an exception goes to return_error
MainAuth ==
    /\ cpc = "main"
    /\ invoked.connector = "auth"
    /\ entries' = IF ret.kind = "raised"
                  THEN ReturnError(entries, ret.hr)
                  ELSE entries
    /\ cpc' = "done"
    /\ UNCHANGED <<invoked, ret>>
    /\ UNCHANGED <<pollVars, scoreVars, contextVars, httpVars, polyVars, replyVars>>

\* search_ip, search_url, search_file, search_domain of the threat
\* intelligence connector, as its tests fix them (lines 73-139)
Search ==
    /\ cpc = "handler"
    /\ invoked.connector = "deti"
    /\ ret' = IF invoked.records > 0
              THEN Returned("Analysis results", invoked.records, RawResponse)
              ELSE Returned("No results found", 0, RawResponse)
    /\ cpc' = "main"
    /\ UNCHANGED <<invoked, entries>>
    /\ UNCHANGED <<pollVars, scoreVars, contextVars, httpVars, polyVars, replyVars>>

\* main of the threat intelligence connector: the handler's triple goes to
\* return_outputs
MainDeTI ==
    /\ cpc = "main"
    /\ invoked.connector = "deti"
    /\ entries' = IF ret.kind = "tuple"
                  THEN ReturnOutputs(entries, ret.hr, ret.context, ret.raw)
                  ELSE ReturnError(entries, ret.hr)
    /\ cpc' = "done"
    /\ UNCHANGED <<invoked, ret>>
    /\ UNCHANGED <<pollVars, scoreVars, contextVars, httpVars, polyVars, replyVars>>

InitCommand ==
    /\ PollIdle
    /\ ScoreIdle
    /\ ContextIdle
    /\ CommandIdle
    /\ HttpIdle
    /\ PolyIdle
    /\ ReplyIdle

NextCommand ==
    \/ Invoke
    \/ ListEvents
    \/ GetEvent
    \/ Query
    \/ MainSIEM
    \/ ListCredentials
    \/ MainAuth
    \/ Search
    \/ MainDeTI

SpecCommand == InitCommand /\ [][NextCommand]_vars

\* ================================================= authentication client
\* One invocation of a command of the authentication connector, from
\* main's dispatch (line 414) with a Client at hand, through
\* Client._http_request, to the entries the host receives.
AuthCommands == {"test-module", "fetch-credentials", "list-credentials"}

\* what requests.request can raise (lines 109-131 name four of them;
\* ReadTimeout is none of the four)
Failures ==
    {"ConnectTimeout", "ReadTimeout", "SSLError", "ProxyError",
     "ConnectionError"}

Statuses == {200, 201, 204, 400, 401, 404, 500, 501}

\* a JSON object with a 'message', a JSON object without one (it holds
\* 'credentials'), a JSON array, an XML document with CODE and MESSAGE
\* elements, and a body that is neither JSON nor XML
JsonBodies == {"jsonMessage", "jsonObject", "jsonArray"}

Bodies == JsonBodies \cup {"xml", "text"}

Outcomes ==
    {[failure |-> f, status |-> 0, body |-> "none", records |-> 0] :
        f \in Failures}
      \cup {[failure |-> "none", status |-> st, body |-> b, records |-> 0] :
              st \in Statuses, b \in Bodies}
      \cup {[failure |-> "none", status |-> st, body |-> "jsonObject",
              records |-> n] : st \in Statuses, n \in 1..MaxRecords}

\* return_error of the host SDK: an error entry, and the process ends
Error(message) == [type |-> "error", message |-> message]

HttpInvoke ==
    /\ hpc = "idle"
    /\ \E c \in AuthCommands, o \in Outcomes :
          transport' = [command |-> c, failure |-> o.failure,
                        status |-> o.status, body |-> o.body,
                        records |-> o.records]
    /\ hpc' = "request"
    /\ UNCHANGED <<attempts, data, exc, output>>
    /\ UNCHANGED <<pollVars, scoreVars, contextVars, commandVars, polyVars, replyVars>>

\* the request is sent again after a failure
AfterFailureRetry == "request"

\* an exception of requests.request leaves the try block of line 65
AfterFailure == "except"

\* requests.request, lines 66-77
Request ==
    /\ hpc = "request"
    /\ attempts < MaxAttempts
    /\ attempts' = attempts + 1
    /\ hpc' = IF transport.failure # "none" THEN AfterFailure ELSE "status"
    /\ UNCHANGED <<transport, data, exc, output>>
    /\ UNCHANGED <<pollVars, scoreVars, contextVars, commandVars, polyVars, replyVars>>

\* the message is the status line whatever the body holds
UpstreamErrorStatusOnly(status, body) ==
    [raises |-> "none", message |-> "status line"]

\* lines 81-94: the error of a response whose status is not 200 or 201
UpstreamError(status, body) ==
    CASE body = "jsonMessage" -> [raises |-> "none", message |-> "body.message"]
      [] body = "jsonObject" -> [raises |-> "none", message |-> "None"]
      [] body = "jsonArray" -> [raises |-> "AttributeError", message |-> ""]
      [] OTHER ->
           IF status \in {400, 401, 501}
           THEN IF body = "xml"
                THEN [raises |-> "none",
                      message |-> "status line, CODE: MESSAGE"]
                ELSE [raises |-> "ParseError", message |-> ""]
           ELSE [raises |-> "none", message |-> "status line"]

\* lines 79-94
CheckStatus ==
    /\ hpc = "status"
    /\ IF transport.status \notin {200, 201}
       THEN LET u == UpstreamError(transport.status, transport.body)
            IN IF u.raises = "none"
               THEN /\ output' = Append(output, Error(u.message))
                    /\ hpc' = "done"
                    /\ UNCHANGED exc
               ELSE /\ exc' = u.raises
                    /\ hpc' = "main"
                    /\ UNCHANGED output
       ELSE /\ hpc' = "parse"
            /\ UNCHANGED <<exc, output>>
    /\ UNCHANGED <<transport, attempts, data>>
    /\ UNCHANGED <<pollVars, scoreVars, contextVars, commandVars, polyVars, replyVars>>

\* lines 96-107, with resp_type 'json' as every caller leaves it
ParseResponse ==
    /\ hpc = "parse"
    /\ IF transport.body \in JsonBodies
       THEN /\ data' = [returned |-> TRUE, body |-> transport.body,
                        records |-> transport.records]
            /\ hpc' = "command"
            /\ UNCHANGED output
       ELSE /\ output' = Append(output,
                                Error("Failed to parse json object from response"))
            /\ hpc' = "done"
            /\ UNCHANGED data
    /\ UNCHANGED <<transport, attempts, exc>>
    /\ UNCHANGED <<pollVars, scoreVars, contextVars, commandVars, polyVars, replyVars>>

\* lines 109-131: the four handlers; any other exception goes on to main
Except ==
    /\ hpc = "except"
    /\ IF transport.failure \in
            {"ConnectTimeout", "SSLError", "ProxyError", "ConnectionError"}
       THEN /\ output' = Append(output, Error(transport.failure))
            /\ hpc' = "done"
            /\ UNCHANGED exc
       ELSE /\ exc' = transport.failure
            /\ hpc' = "main"
            /\ UNCHANGED output
    /\ UNCHANGED <<transport, attempts, data>>
    /\ UNCHANGED <<pollVars, scoreVars, contextVars, commandVars, polyVars, replyVars>>

\* test_module, lines 133-140 and 236-241
AuthTestModule ==
    /\ hpc = "command"
    /\ transport.command = "test-module"
    /\ output' = Append(output, [type |-> "note", message |-> "ok"])
    /\ hpc' = "main"
    /\ UNCHANGED <<transport, attempts, data, exc>>
    /\ UNCHANGED <<pollVars, scoreVars, contextVars, commandVars, polyVars, replyVars>>

\* fetch_credentials, lines 244-257: raw_response.get fails on a body that
\* is not a JSON object
AuthFetchCredentials ==
    /\ hpc = "command"
    /\ transport.command = "fetch-credentials"
    /\ IF data.body = "jsonArray"
       THEN /\ exc' = "AttributeError"
            /\ UNCHANGED output
       ELSE /\ output' = Append(output, [type |-> "credentials",
                                         message |-> "credentials"])
            /\ UNCHANGED exc
    /\ hpc' = "main"
    /\ UNCHANGED <<transport, attempts, data>>
    /\ UNCHANGED <<pollVars, scoreVars, contextVars, commandVars, polyVars, replyVars>>

\* list_credentials, lines 376-390
AuthListCredentials ==
    /\ hpc = "command"
    /\ transport.command = "list-credentials"
    /\ IF data.body = "jsonArray"
       THEN /\ exc' = "AttributeError"
            /\ UNCHANGED output
       ELSE /\ output' = Append(output,
                  IF data.records > 0
                  THEN [type |-> "note", message |-> "Credentials list."]
                  ELSE [type |-> "warning",
                        message |-> "Could not find any credentials."])
            /\ UNCHANGED exc
    /\ hpc' = "main"
    /\ UNCHANGED <<transport, attempts, data>>
    /\ UNCHANGED <<pollVars, scoreVars, contextVars, commandVars, polyVars, replyVars>>

\* main, lines 412-418: an exception that reaches it goes to return_error
HttpMain ==
    /\ hpc = "main"
    /\ output' = IF exc # "none"
                 THEN Append(output,
                             Error("Error in AuthenticationExample Integration"))
                 ELSE output
    /\ hpc' = "done"
    /\ UNCHANGED <<transport, attempts, data, exc>>
    /\ UNCHANGED <<pollVars, scoreVars, contextVars, commandVars, polyVars, replyVars>>

InitHttp ==
    /\ PollIdle
    /\ ScoreIdle
    /\ ContextIdle
    /\ CommandIdle
    /\ HttpIdle
    /\ PolyIdle
    /\ ReplyIdle

NextHttp ==
    \/ HttpInvoke
    \/ Request
    \/ CheckStatus
    \/ ParseResponse
    \/ Except
    \/ AuthTestModule
    \/ AuthFetchCredentials
    \/ AuthListCredentials
    \/ HttpMain

SpecHttp == InitHttp /\ [][NextHttp]_vars

\* ============================================================== PolySwarm
\* One invocation of a reputation command of the PolySwarm connector
\* (Packs/PolySwarm/Integrations/PolySwarm_v2/PolySwarm.py), from main's
\* dispatch to the entries the host receives.
\*
\* An artifact is modelled by what it is and what socket.inet_aton does
\* with it: "ip" is an IP address and is accepted; "loose" is not an IP
\* address but is accepted ('1.2.3.4 x': inet_aton stops at the blank);
\* "text" raises socket.error ('abc', '999.1.1.1'); "nul" (an embedded NUL
\* character, '1.2.3.4\0') raises ValueError. An assertion is modelled by its verdict: "true",
\* "false" or "none" (the engine abstained).
Kinds == {"ip", "loose", "text", "nul"}

Verdicts == {"true", "false", "none"}

UrlCommands == {"url", "url-scan", "ip", "domain"}

\* main, lines 339-346: the artifact_type handed to url_reputation
ArtifactType(command) == IF command = "url-scan" THEN "url" ELSE command

ArtifactLists == UNION {[1..n -> Kinds] : n \in 1..MaxArtifacts}

\* the artifact lists a command is invoked with: what inet_aton makes of
\* an artifact matters to the ip command alone (lines 214-219), so the
\* artifacts of the other commands are all of one kind
ArtifactsFor(command) ==
    IF command = "ip"
    THEN ArtifactLists
    ELSE {arts \in ArtifactLists : \A i \in DOMAIN arts : arts[i] = "text"}

AssertionLists == UNION {[1..n -> Verdicts] : n \in 0..MaxAssertions}

\* a result of polyswarm_api.search: its assertions, or the mark of a
\* failed result
FailedResult == <<"failed">>

SearchResults ==
    UNION {[1..n -> AssertionLists \cup {FailedResult}] : n \in 0..MaxArtifacts}

\* str(n)
Str(n) == [str |-> n]

NoResult ==
    [Object |-> "none", Artifact |-> 0, Total |-> Str(0), Positives |-> Str(0),
     Score |-> "none"]

\* _get_results, lines 32-52
GetResults(object_name, total_scans, positives, artifact, score) ==
    [Object |-> object_name, Artifact |-> artifact, Total |-> Str(total_scans),
     Positives |-> Str(positives), Score |-> score]

RECURSIVE Tally(_)

\* an abstention counts as a positive
TallyNotFalse(assertions) ==
    [positives |-> Cardinality({i \in 1..Len(assertions) :
                                   assertions[i] # "false"}),
     total_scans |-> Len(assertions)]

\* lines 231-234 (and 92-95): the loop over the assertions of a result
Tally(assertions) ==
    IF assertions = << >>
    THEN [positives |-> 0, total_scans |-> 0]
    ELSE LET rest == Tally(Tail(assertions))
         IN [positives |-> rest.positives
                            + (IF Head(assertions) = "true" THEN 1 ELSE 0),
             total_scans |-> rest.total_scans + 1]

\* line 241
DBotScore(positives) == IF positives > 0 THEN "SUSPICIOUS" ELSE "GOOD"

\* lines 243-251
ObjectName(artifact_type) ==
    CASE artifact_type = "ip" -> "IP"
      [] artifact_type = "url" -> "URL"
      [] OTHER -> "Domain"

\* socket.inet_aton, line 216
InetAton(kind) ==
    CASE kind \in {"ip", "loose"} -> "ok"
      [] kind = "text" -> "socket.error"
      [] OTHER -> "ValueError"

PolyEntry(type, text, result) == [type |-> type, text |-> text, result |-> result]

\* demisto.command() and demisto.args()
PolyInvoke ==
    /\ ppc = "idle"
    /\ \/ \E c \in UrlCommands : \E arts \in ArtifactsFor(c) :
             /\ pcmd' = [command |-> c, artifacts |-> arts]
             /\ ppc' = "validate"
       \/ \E arts \in {<< >>, <<"text">>} :
             /\ pcmd' = [command |-> "file", artifacts |-> arts]
             /\ ppc' = "file"
    /\ UNCHANGED <<idx, submitted, scanned, command_results, pret, pout>>
    /\ UNCHANGED <<pollVars, scoreVars, contextVars, commandVars, httpVars, replyVars>>

\* url_reputation, lines 203-219: the IP validation of the artifact the
\* loop is at; return_error ends the process, a ValueError goes to main
Validate ==
    /\ ppc = "validate"
    /\ LET checked == IF ArtifactType(pcmd.command) = "ip"
                      THEN InetAton(pcmd.artifacts[idx])
                      ELSE "ok"
       IN CASE checked = "ok" ->
                 /\ ppc' = "submit"
                 /\ UNCHANGED <<pret, pout>>
            [] checked = "socket.error" ->
                 /\ pout' = Append(pout, PolyEntry("error",
                                                  "Invalid IP Address", NoResult))
                 /\ ppc' = "done"
                 /\ UNCHANGED pret
            [] OTHER ->
                 /\ pret' = "raised"
                 /\ ppc' = "main"
                 /\ UNCHANGED pout
    /\ UNCHANGED <<pcmd, idx, submitted, scanned, command_results>>
    /\ UNCHANGED <<pollVars, scoreVars, contextVars, commandVars, httpVars, replyVars>>

\* url_reputation, lines 221-274: the artifact is submitted and waited
\* for; the scan raises, or its result is failed, or its assertions are
\* counted and the result is appended to command_results
Scan ==
    /\ ppc = "submit"
    /\ submitted' = submitted \cup {idx}
    /\ \/ /\ pout' = Append(pout, PolyEntry("error", "Error with endpoint",
                                            NoResult))
          /\ ppc' = "done"
          /\ UNCHANGED <<idx, scanned, command_results, pret>>
       \/ /\ pout' = Append(pout, PolyEntry("note", "Error submitting URL.",
                                            NoResult))
          /\ pret' = "None"
          /\ ppc' = "main"
          /\ UNCHANGED <<idx, scanned, command_results>>
       \/ \E assertions \in AssertionLists :
             LET t == Tally(assertions)
                 artifact_type == ArtifactType(pcmd.command)
             IN /\ scanned' = Append(scanned, assertions)
                /\ command_results' =
                      Append(command_results,
                             GetResults(ObjectName(artifact_type),
                                        t.total_scans, t.positives, idx,
                                        DBotScore(t.positives)))
                /\ IF idx = Len(pcmd.artifacts)
                   THEN /\ pret' = "list"
                        /\ ppc' = "main"
                        /\ UNCHANGED idx
                   ELSE /\ idx' = idx + 1
                        /\ ppc' = "validate"
                        /\ UNCHANGED pret
                /\ UNCHANGED pout
    /\ UNCHANGED pcmd
    /\ UNCHANGED <<pollVars, scoreVars, contextVars, commandVars, httpVars, replyVars>>

RECURSIVE Concat(_)
\* the assertions of the results of a search, one after the other
Concat(results) ==
    IF results = << >> THEN << >> ELSE Head(results) \o Concat(Tail(results))

\* the first result of a search that ends file_reputation (lines 86-90)
Bad(results) ==
    {i \in 1..Len(results) : results[i] = FailedResult \/ results[i] = << >>}

FirstBad(results) == CHOOSE i \in Bad(results) : \A j \in Bad(results) : i <= j

\* file_reputation, lines 67-109
FileReputation ==
    /\ ppc = "file"
    /\ IF pcmd.artifacts = << >>
       THEN /\ pout' = Append(pout, PolyEntry("error",
                  "Please specify a file hash to enrich.", NoResult))
            /\ ppc' = "done"
            /\ UNCHANGED <<scanned, command_results, pret>>
       ELSE \/ /\ pout' = Append(pout, PolyEntry("error",
                                                 "Error with endpoint", NoResult))
               /\ ppc' = "done"
               /\ UNCHANGED <<scanned, command_results, pret>>
            \/ \E results \in SearchResults :
                  /\ scanned' = results
                  /\ IF Bad(results) # {}
                     THEN /\ pout' = Append(pout, PolyEntry("error",
                                IF results[FirstBad(results)] = FailedResult
                                THEN "Error fetching results. Please try again."
                                ELSE "Run Rescan for this hash", NoResult))
                          /\ ppc' = "done"
                          /\ UNCHANGED <<command_results, pret>>
                     ELSE LET t == Tally(Concat(results))
                          IN /\ command_results' =
                                   <<GetResults("File", t.total_scans,
                                                t.positives, 1, "none")>>
                             /\ pret' = "result"
                             /\ ppc' = "main"
                             /\ UNCHANGED pout
    /\ UNCHANGED <<pcmd, idx, submitted>>
    /\ UNCHANGED <<pollVars, scoreVars, contextVars, commandVars, httpVars, replyVars>>

\* main, lines 320-352: return_results of what the handler returned, or
\* return_error of the exception that reached it
PolyMain ==
    /\ ppc = "main"
    /\ pout' = CASE pret = "raised" ->
                     Append(pout, PolyEntry("error", "embedded null character",
                                            NoResult))
                [] pret = "None" -> pout
                [] OTHER ->
                     pout \o [i \in 1..Len(command_results) |->
                                PolyEntry("result", "", command_results[i])]
    /\ ppc' = "done"
    /\ UNCHANGED <<pcmd, idx, submitted, scanned, command_results, pret>>
    /\ UNCHANGED <<pollVars, scoreVars, contextVars, commandVars, httpVars, replyVars>>

InitPoly ==
    /\ PollIdle
    /\ ScoreIdle
    /\ ContextIdle
    /\ CommandIdle
    /\ HttpIdle
    /\ PolyIdle
    /\ ReplyIdle

NextPoly ==
    \/ PolyInvoke
    \/ Validate
    \/ Scan
    \/ FileReputation
    \/ PolyMain

SpecPoly == InitPoly /\ [][NextPoly]_vars

\* ===================================== test-module and the lock commands
\* One invocation of test-module (analytics connector, lines 198-204, and
\* the threat intelligence connector as its tests fix it) or of a lock
\* command of the authentication connector (lines 260-373): the command
\* and its argument, the upstream's answer, the handler, the entries.
\*
\* The answer to the version request is a JSON value: an object with a
\* 'version' key, an empty object, an object with other keys, a string
\* that holds the word version, a list that holds it, an empty list, a
\* number, null.
VersionAnswers ==
    {"objVersion", "objEmpty", "objOther", "strVersion", "listVersion",
     "listEmpty", "number", "null"}

Ids == {"1", "2", "3"}

AccountCommands == {"lock-account", "unlock-account", "reset-account"}

VaultCommands == {"lock-vault", "unlock-vault"}

\* `'version' in results`
VersionIn(answer) ==
    CASE answer \in {"objVersion", "strVersion", "listVersion"} -> "True"
      [] answer \in {"objEmpty", "objOther", "listEmpty"} -> "False"
      [] OTHER -> "TypeError"

ReplyEntry(type, hr, locked, id) ==
    [type |-> type, hr |-> hr, locked |-> locked, id |-> id]

\* demisto.command() and demisto.args()
Ask ==
    /\ apc = "idle"
    /\ \/ \E c \in {"siem", "deti"} :
             asked' = [connector |-> c, command |-> "test-module",
                       target |-> "", answer |-> "none"]
       \/ \E c \in AccountCommands \cup VaultCommands, t \in Ids :
             asked' = [connector |-> "auth", command |-> c, target |-> t,
                       answer |-> "none"]
    /\ apc' = "request"
    /\ UNCHANGED <<aret, aout>>
    /\ UNCHANGED <<pollVars, scoreVars, contextVars, commandVars, httpVars, polyVars>>

\* the request is answered with 200 and a JSON body: the version answer,
\* the account the upstream names (or none), or the vault's is_locked
\* (or none)
Answer ==
    /\ apc = "request"
    /\ \E a \in CASE asked.connector = "siem" -> VersionAnswers
                  [] asked.connector = "deti" -> {"objVersion", "objEmpty"}
                  [] asked.command \in AccountCommands -> Ids \cup {"none"}
                  [] OTHER -> {"true", "false", "none"} :
          asked' = [asked EXCEPT !.answer = a]
    /\ apc' = "handler"
    /\ UNCHANGED <<aret, aout>>
    /\ UNCHANGED <<pollVars, scoreVars, contextVars, commandVars, httpVars, polyVars>>

\* test_module of the analytics connector, lines 198-204
TestModule ==
    /\ apc = "handler"
    /\ asked.connector = "siem"
    /\ aret' = CASE VersionIn(asked.answer) = "True" ->
                     [kind |-> "tuple", hr |-> "ok", locked |-> "none", id |-> ""]
                [] VersionIn(asked.answer) = "False" ->
                     [kind |-> "raised", hr |-> "Test module failed",
                      locked |-> "none", id |-> ""]
                [] OTHER ->
                     [kind |-> "raised", hr |-> "TypeError",
                      locked |-> "none", id |-> ""]
    /\ apc' = "main"
    /\ UNCHANGED <<asked, aout>>
    /\ UNCHANGED <<pollVars, scoreVars, contextVars, commandVars, httpVars, polyVars>>

\* test_module of the threat intelligence connector, as its tests fix it
\* (lines 61-71)
TestModuleDeTI ==
    /\ apc = "handler"
    /\ asked.connector = "deti"
    /\ aret' = IF asked.answer = "objVersion"
               THEN [kind |-> "tuple", hr |-> "ok", locked |-> "none", id |-> ""]
               ELSE [kind |-> "raised", hr |-> "Test module failed",
                     locked |-> "none", id |-> ""]
    /\ apc' = "main"
    /\ UNCHANGED <<asked, aout>>
    /\ UNCHANGED <<pollVars, scoreVars, contextVars, commandVars, httpVars, polyVars>>

\* main of the analytics connector, lines 397-406 (the threat intelligence
\* connector's main is taken to do the same)
ReplyMain ==
    /\ apc = "main"
    /\ aout' = Append(aout, ReplyEntry(IF aret.kind = "tuple" THEN "note"
                                                              ELSE "error",
                                       aret.hr, aret.locked, aret.id))
    /\ apc' = "done"
    /\ UNCHANGED <<asked, aret>>
    /\ UNCHANGED <<pollVars, scoreVars, contextVars, commandVars, httpVars, polyVars>>

\* lock_account, lines 260-283
LockAccount ==
    /\ apc = "handler"
    /\ asked.command = "lock-account"
    /\ aout' = Append(aout,
                      IF asked.answer = asked.target
                      THEN ReplyEntry("note", "lock-account", "True", asked.target)
                      ELSE ReplyEntry("error", "Could not lock account", "none", ""))
    /\ apc' = "done"
    /\ UNCHANGED <<asked, aret>>
    /\ UNCHANGED <<pollVars, scoreVars, contextVars, commandVars, httpVars, polyVars>>

\* unlock_account, lines 286-310
UnlockAccount ==
    /\ apc = "handler"
    /\ asked.command = "unlock-account"
    /\ aout' = Append(aout,
                      IF asked.answer = asked.target
                      THEN ReplyEntry("note", "unlock-account", "False", asked.target)
                      ELSE ReplyEntry("error", "Could not unlock account", "none", ""))
    /\ apc' = "done"
    /\ UNCHANGED <<asked, aret>>
    /\ UNCHANGED <<pollVars, scoreVars, contextVars, commandVars, httpVars, polyVars>>

\* lock_vault, lines 313-328
LockVault ==
    /\ apc = "handler"
    /\ asked.command = "lock-vault"
    /\ aout' = Append(aout,
                      IF asked.answer = "true"
                      THEN ReplyEntry("note", "lock-vault", "True", asked.target)
                      ELSE ReplyEntry("error", "Could not lock vault ID", "none", ""))
    /\ apc' = "done"
    /\ UNCHANGED <<asked, aret>>
    /\ UNCHANGED <<pollVars, scoreVars, contextVars, commandVars, httpVars, polyVars>>

\* unlock_vault, lines 331-346
UnlockVault ==
    /\ apc = "handler"
    /\ asked.command = "unlock-vault"
    /\ aout' = Append(aout,
                      IF asked.answer = "true"
                      THEN ReplyEntry("note", "unlock-vault", "True", asked.target)
                      ELSE ReplyEntry("error", "Could not lock vault ID", "none", ""))
    /\ apc' = "done"
    /\ UNCHANGED <<asked, aret>>
    /\ UNCHANGED <<pollVars, scoreVars, contextVars, commandVars, httpVars, polyVars>>

\* reset_account_command, lines 349-373
ResetAccount ==
    /\ apc = "handler"
    /\ asked.command = "reset-account"
    /\ aout' = Append(aout,
                      IF asked.answer = asked.target
                      THEN ReplyEntry("note", "reset-account", "False", asked.target)
                      ELSE ReplyEntry("error", "Could not reset account", "none", ""))
    /\ apc' = "done"
    /\ UNCHANGED <<asked, aret>>
    /\ UNCHANGED <<pollVars, scoreVars, contextVars, commandVars, httpVars, polyVars>>

InitReply ==
    /\ PollIdle
    /\ ScoreIdle
    /\ ContextIdle
    /\ CommandIdle
    /\ HttpIdle
    /\ PolyIdle
    /\ ReplyIdle

NextReply ==
    \/ Ask
    \/ Answer
    \/ TestModule
    \/ TestModuleDeTI
    \/ ReplyMain
    \/ LockAccount
    \/ UnlockAccount
    \/ LockVault
    \/ UnlockVault
    \/ ResetAccount

SpecReply == InitReply /\ [][NextReply]_vars

\* ================================================================ claims
\* order of cursor values: an absent cursor is below every timestamp
TsLeq(a, b) == a.t <= b.t

InCycle(p) == pc[p] \in {"map", "save", "deliver"}

\* C1: over successful fetch_incidents cycles the stored watermark never
\* decreases: the value stored after a successful cycle is greater than or
\* equal to the value stored after the previous successful cycle.
WatermarkNeverDecreases ==
    [][\A p \in Procs :
          (pc[p] = "deliver" /\ pc'[p] = "idle" /\ outcome'[p] = "ok")
              => TsLeq(okRun, okRun')]_vars

\* C2: between cycles, every upstream record whose creation timestamp is
\* less than or equal to the stored watermark and that lies inside the
\* lookback window has been delivered to the host.  (The window counted
\* from the current time is contained in the window of the first cycle.)
NoRecordSkipped ==
    AllIdle =>
        \A e \in upstream :
            (/\ ~Falsy(lastRun)
             /\ ~Falsy(e.created)
             /\ TsLeq(e.created, lastRun)
             /\ fetch_time # 0
             /\ e.at > Max(now - fetch_time, 0))
                => delivered[e.id] > 0

\* C3: within a cycle the watermark is saved only after the batch has been
\* handed to the host: no state has a save without the delivery.
SaveOnlyAfterDelivery ==
    \A p \in Procs : saves[p] > 0 => reports[p] > 0

\* C4: a cycle that ends in an error leaves the stored watermark equal to
\* the watermark stored when the cycle started.
FailedCycleKeepsWatermark ==
    \A p \in Procs :
        (pc[p] = "idle" /\ outcome[p] = "error") => lastRun = startRun[p]

\* C5: when the upstream returns zero records the save step is never
\* entered, and the cycle ends with no save, the stored watermark unchanged
\* and one (empty) incident list reported to the host.
EmptyBatchNoSave ==
    [][\A p \in Procs :
          /\ (pc[p] = "map" /\ events[p] = << >>) => pc'[p] = "deliver"
          /\ (pc[p] = "deliver" /\ events[p] = << >> /\ outcome'[p] = "ok")
                => /\ saves'[p] = 0
                   /\ lastRun' = startRun[p]
                   /\ reports'[p] = 1
                   /\ delivered' = delivered]_vars

\* witness of C5: a cycle has ended successfully without a save
EmptyBatchReported ==
    /\ pc[1] = "idle"
    /\ outcome[1] = "ok"
    /\ saves[1] = 0
    /\ reports[1] = 1
    /\ upstream # {}

\* C6: after a non-empty batch, save has been called exactly once and the
\* stored watermark is the creation timestamp of the last record of the
\* batch, which is the maximum creation timestamp of the batch (stated for
\* batches whose records all carry a creation timestamp).
WatermarkIsLastAndMax ==
    \A p \in Procs :
        (/\ pc[p] = "deliver"
         /\ events[p] # << >>
         /\ \A i \in 1..Len(events[p]) : ~Falsy(events[p][i].created))
            => /\ saves[p] = 1
               /\ lastRun = events[p][Len(events[p])].created
               /\ \A i \in 1..Len(events[p]) :
                      TsLeq(events[p][i].created, lastRun)

\* C7: the batch the watermark is derived from is in ascending order of
\* creation time.
BatchAscending ==
    \A p \in Procs :
        pc[p] = "save"
            => \A i, j \in 1..Len(events[p]) :
                   i < j => events[p][i].at <= events[p][j].at

\* C8: once a batch has been ingested (and so a watermark written), no
\* later invocation loads an absent watermark: the invocation is not
\* treated as a first run, and it starts from the value last written.
LoadReturnsLastSaved ==
    \A p \in Procs :
        (pc[p] = "fetch" /\ \E i \in 1..MaxEvents : delivered[i] > 0)
            => ~Falsy(last_run[p])

\* C9: a request sent by a cycle that loaded no watermark always carries
\* sinceTime, and its value is the current time minus the configured
\* lookback window (fetch_time) in the text form of timestamp_format.
FirstRunRequestBounded ==
    \A p \in Procs :
        /\ (request[p].sent /\ Falsy(startRun[p]))
              => /\ "sinceTime" \in request[p].keys
                 /\ fetch_time # 0
        /\ (InCycle(p) /\ Falsy(last_run[p]))
              => /\ request[p].sent
                 /\ request[p].sinceTime =
                        [t |-> Max(now - fetch_time, 0), shape |-> "zq"]

\* witness of C9: a first-run cycle has sent its request
FirstRunRequestSent ==
    /\ pc[1] = "map"
    /\ Falsy(last_run[1])
    /\ request[1].sent
    /\ upstream # {}

\* C10: a cycle that loaded the watermark W receives only records created
\* strictly after W, so the record created at W is not delivered again.
OnlyStrictlyAfterWatermark ==
    \A p \in Procs :
        (InCycle(p) /\ ~Falsy(last_run[p]))
            => \A i \in 1..Len(events[p]) : events[p][i].at > last_run[p].t

NoNewDataEmptyBatch ==
    \A p \in Procs :
        (/\ InCycle(p)
         /\ ~Falsy(last_run[p])
         /\ \A e \in upstream : e.at <= last_run[p].t)
            => /\ events[p] = << >>
               /\ lastRun = startRun[p]

\* C13: calculate_dbot_score(s, T) is 0 when s < 0, 1 when 0 <= s < T/2,
\* 2 when T/2 <= s < T and 3 when s >= T; in particular (100,50) -> 3,
\* (40,50) -> 2, (10,50) -> 1, (-1,T) -> 0 and (10,5) -> 3.
VerdictBands ==
    call.made =>
        /\ call.verdict = 0 <=> call.score < 0
        /\ call.verdict = 1 <=> (0 <= call.score /\ 2 * call.score < call.used)
        /\ call.verdict = 2 <=> (call.used <= 2 * call.score
                                  /\ call.score < call.used)
        /\ call.verdict = 3 <=> (0 <= call.score /\ call.score >= call.used)
        /\ (call.score = 100 /\ call.used = 50) => call.verdict = 3
        /\ (call.score = 40 /\ call.used = 50) => call.verdict = 2
        /\ (call.score = 10 /\ call.used = 50) => call.verdict = 1
        /\ call.score = -1 => call.verdict = 0
        /\ (call.score = 10 /\ call.used = 5) => call.verdict = 3

\* witness of C13: the boundary call (10, 5) has been made
BoundaryCallMade ==
    /\ call.made
    /\ call.score = 10
    /\ call.explicit = 5
    /\ call.verdict = 3
    /\ prev.made
    /\ prev.score = 5
    /\ prev.explicit = 5
    /\ prev.verdict = 3

\* C14: for one threshold, a higher score never yields a lower verdict.
VerdictMonotonic ==
    (prev.made /\ call.made /\ prev.used = call.used)
        => /\ prev.score <= call.score => prev.verdict <= call.verdict
           /\ call.score <= prev.score => call.verdict <= prev.verdict

\* witness of C14: two calls with one threshold, the higher score with the
\* higher verdict
HigherScoreHigherVerdict ==
    /\ prev.made
    /\ call.made
    /\ prev.used = call.used
    /\ prev.score < call.score
    /\ prev.verdict = 1
    /\ call.verdict = 2

\* C15: a call never changes the client's configured threshold, and a call
\* without an explicit threshold is judged against the configured one,
\* whatever calls came before it.
ExplicitThresholdNotKept ==
    [][/\ threshold' = threshold
       /\ (call'.made /\ call'.explicit = 0)
             => call'.verdict = Normalize(call'.score, threshold)]_vars

\* witness of C15: a call with an explicit threshold other than the
\* default, followed by a call without one
DefaultCallAfterExplicit ==
    /\ prev.made
    /\ prev.explicit # 0
    /\ prev.explicit # threshold
    /\ call.made
    /\ call.explicit = 0
    /\ Normalize(call.score, prev.explicit) # call.verdict

\* the value of a key of a raw event, "None" when the key is missing
FieldOf(e, k) == IF k \in DOMAIN e THEN e[k] ELSE "None"

\* the (name, id) pairs of the assignees of a raw event
AssigneesOf(e) ==
    IF "assignee" \in DOMAIN e
    THEN [i \in 1..Len(e.assignee) |->
             <<FieldOf(e.assignee[i], "name"), FieldOf(e.assignee[i], "id")>>]
    ELSE << >>

\* C16: for an event with any subset of the known keys, build_context
\* returns a record with exactly the keys ID, Description, Created,
\* IsActive and Assignee, a missing scalar key gives None and a missing
\* assignee list gives the empty list; the incident fetch_incidents builds
\* has None for a missing title or created.
MissingFieldsDefault ==
    raw.made =>
        \A i \in 1..Len(raw.items) :
            LET e == raw.items[i]
                o == context.items[i]
            IN /\ DOMAIN o = {"ID", "Description", "Created", "IsActive",
                               "Assignee"}
               /\ "eventId" \notin DOMAIN e => o.ID = "None"
               /\ "description" \notin DOMAIN e => o.Description = "None"
               /\ "createdAt" \notin DOMAIN e => o.Created = "None"
               /\ "isActive" \notin DOMAIN e => o.IsActive = "None"
               /\ "assignee" \notin DOMAIN e => o.Assignee = << >>
               /\ \A j \in 1..Len(o.Assignee) :
                      /\ DOMAIN o.Assignee[j] = {"Name", "ID"}
                      /\ "name" \notin DOMAIN e.assignee[j]
                            => o.Assignee[j].Name = "None"
                      /\ "id" \notin DOMAIN e.assignee[j]
                            => o.Assignee[j].ID = "None"
               /\ DOMAIN mapped[i] = {"name", "occurred", "rawJSON"}
               /\ "title" \notin DOMAIN e => mapped[i].name = "None"
               /\ "created" \notin DOMAIN e => mapped[i].occurred = "None"

\* witness of C16: an event with no key at all has been mapped
EmptyEventMapped ==
    /\ raw.made
    /\ ~raw.isList
    /\ DOMAIN raw.items[1] = {}
    /\ context.items[1].Assignee = << >>
    /\ context.items[1].ID = "None"
    /\ mapped[1].occurred = "None"

\* C17: two raw events that differ in eventId, description, createdAt,
\* isActive or in an assignee's name or id map to different records, equal
\* inputs map to equal outputs, and a list maps to a list of the same length
\* whose element i carries the known fields of input element i.
LosslessProjection ==
    (raw.made /\ prevRaw.made) =>
        /\ raw = prevRaw => context = prevContext
        /\ context.isList = raw.isList
        /\ Len(context.items) = Len(raw.items)
        /\ \A i \in 1..Len(raw.items) :
              /\ context.items[i].ID = FieldOf(raw.items[i], "eventId")
              /\ \A j \in 1..Len(prevRaw.items) :
                    LET e1 == prevRaw.items[j]
                        e2 == raw.items[i]
                    IN (\/ \E k \in {"eventId", "description", "createdAt",
                                      "isActive"} :
                               FieldOf(e1, k) # FieldOf(e2, k)
                        \/ AssigneesOf(e1) # AssigneesOf(e2))
                          => prevContext.items[j] # context.items[i]

\* witness of C17: two events that differ only in an assignee's id have
\* been mapped, then a list of two events
AssigneeIdDiffers ==
    /\ prevRaw.made
    /\ raw.made
    /\ ~raw.isList
    /\ ~prevRaw.isList
    /\ raw.items[1] = BaseEvent
    /\ prevRaw.items[1] = [BaseEvent EXCEPT !.assignee = <<[BaseUser EXCEPT !.id = "143"]>>]
    /\ prevContext # context

\* C18: a command that queries the upstream and gets zero matching records
\* does not report an error: it ends with a note or a warning, and a search
\* ends with the one entry 'No results found', an empty context and the raw
\* response as received.
EmptyResultNotAnError ==
    (cpc = "done" /\ invoked.records = 0) =>
        /\ \A i \in 1..Len(entries) : entries[i].type # "error"
        /\ \E i \in 1..Len(entries) : entries[i].type \in {"note", "warning"}
        /\ invoked.connector = "deti" =>
              entries = <<[type |-> "note", hr |-> "No results found",
                           context |-> 0, raw |-> [records |-> 0]]>>

\* the invocation is over and the upstream answered with a non-2xx status
NonSuccessAnswered ==
    /\ hpc = "done"
    /\ transport.failure = "none"
    /\ transport.status \notin 200..299

\* C19 as stated: for every non-2xx status the invocation ends with an
\* error and no data, and the message is the JSON 'message' of a JSON body
\* and the CODE/MESSAGE pairs of an XML body.
UpstreamErrorFromBody ==
    (NonSuccessAnswered /\ transport.body \in {"jsonMessage", "xml"}) =>
        /\ ~data.returned
        /\ output = <<[type |-> "error",
                       message |-> IF transport.body = "jsonMessage"
                                   THEN "body.message"
                                   ELSE "status line, CODE: MESSAGE"]>>

\* C19 as amended: for every non-2xx status the invocation ends with one
\* error entry, no data and no other output; the message is the 'message'
\* of a JSON object; the CODE/MESSAGE pairs of an XML body follow the
\* status line only for status 400, 401 and 501, and for any other status
\* an XML body gives the status line alone.
UpstreamErrorByStatus ==
    NonSuccessAnswered =>
        /\ ~data.returned
        /\ Len(output) = 1
        /\ output[1].type = "error"
        /\ transport.body = "jsonMessage" => output[1].message = "body.message"
        /\ transport.body = "xml" =>
              output[1].message = IF transport.status \in {400, 401, 501}
                                  THEN "status line, CODE: MESSAGE"
                                  ELSE "status line"

\* witness of C19: a 404 with an XML body has been reported with the
\* status line alone
XmlBodyNotParsed ==
    /\ NonSuccessAnswered
    /\ transport.status = 404
    /\ transport.body = "xml"
    /\ output = <<[type |-> "error", message |-> "status line"]>>

\* C20: when requests.request fails with a connection, timeout, TLS or
\* proxy failure the invocation ends with an error entry and no other
\* output, no data reached the command, and the request was sent exactly
\* once; no invocation sends a request twice.
TransportFailureFatalOnce ==
    /\ attempts <= 1
    /\ (hpc = "done" /\ transport.failure # "none") =>
          /\ attempts = 1
          /\ ~data.returned
          /\ Len(output) = 1
          /\ output[1].type = "error"

\* witness of C20: a read timeout, which _http_request does not catch, has
\* been reported by main
ReadTimeoutReported ==
    /\ hpc = "done"
    /\ transport.failure = "ReadTimeout"
    /\ attempts = 1
    /\ exc = "ReadTimeout"
    /\ output = <<[type |-> "error",
                   message |-> "Error in AuthenticationExample Integration"]>>

\* C21: an invocation ends either with an error and nothing else, or with
\* a success output for every artifact of its argument and no error; when
\* the scan of one artifact of a list fails, no result is reported.
SuccessOrErrorOnly ==
    ppc = "done" =>
        \/ /\ Len(pout) = 1
           /\ pout[1].type = "error"
        \/ /\ pout # << >>
           /\ \A i \in 1..Len(pout) : pout[i].type = "result"
           /\ pcmd.command \in UrlCommands => Len(pout) = Len(pcmd.artifacts)

\* C22: with two invocations that may overlap, every demisto.setLastRun
\* overwrites the store with the value of the invocation that calls it,
\* whatever the other invocation did or is doing, and nothing else changes
\* the store: the store holds the value of the save that happened last.
LastWriterWins ==
    [][IF \E p \in DOMAIN pc : pc[p] = "save" /\ pc'[p] = "deliver"
       THEN \A p \in DOMAIN pc :
               (pc[p] = "save" /\ pc'[p] = "deliver")
                   => lastRun' = LastIncidentTimestamp(events[p])
       ELSE lastRun' = lastRun]_vars

\* witness of C22: both invocations have saved, and the store holds the
\* value of the second one although the first one saved a later timestamp
OlderValueWrittenLast ==
    /\ DOMAIN pc = Pollers
    /\ pc[1] = "deliver"
    /\ pc[2] = "deliver"
    /\ saves[1] = 1
    /\ saves[2] = 1
    /\ lastRun = LastIncidentTimestamp(events[2])
    /\ LastIncidentTimestamp(events[1]).t > lastRun.t

\* C23: test_module reports 'ok' exactly when the answer to the version
\* request is an object with a 'version' key; for every other answer it
\* ends with a 'Test module failed' error and no 'ok'.
OkIffVersionKey ==
    (apc = "done" /\ asked.command = "test-module") =>
        aout = <<IF asked.answer = "objVersion"
                 THEN [type |-> "note", hr |-> "ok", locked |-> "none", id |-> ""]
                 ELSE [type |-> "error", hr |-> "Test module failed",
                       locked |-> "none", id |-> ""]>>

\* what the upstream's answer confirms for the command
Confirms ==
    CASE asked.command \in AccountCommands -> asked.answer = asked.target
      [] asked.command = "lock-vault" -> asked.answer = "true"
      [] OTHER -> asked.answer = "false"

\* C24: a lock command whose answer confirms the requested state writes
\* IsLocked true for lock-account and lock-vault and IsLocked false for
\* unlock-account, reset-account and unlock-vault; one whose answer does
\* not confirm it reports an error and writes no context.
IsLockedAsRequested ==
    (apc = "done" /\ asked.connector = "auth") =>
        aout = <<IF Confirms
                 THEN [type |-> "note", hr |-> asked.command,
                       locked |-> IF asked.command \in {"lock-account", "lock-vault"}
                                  THEN "True" ELSE "False",
                       id |-> asked.target]
                 ELSE [type |-> "error", hr |-> aout[1].hr, locked |-> "none",
                       id |-> ""]>>

\* the assertions behind the i-th reported result: those of the i-th
\* artifact for url, ip and domain, those of every result of the search
\* for a file
AssertionsOf(i) ==
    IF pcmd.command \in UrlCommands THEN scanned[i] ELSE Concat(scanned)

TrueVerdicts(assertions) ==
    Cardinality({j \in 1..Len(assertions) : assertions[j] = "true"})

\* C25: every reported result has Total = the number of assertions
\* counted and Positives = the number of those with a true verdict, so
\* 0 <= Positives <= Total; for url, ip and domain the score is SUSPICIOUS
\* exactly when Positives > 0 and GOOD exactly when Positives = 0.
TalliesMatchAssertions ==
    \A i \in 1..Len(pout) :
        pout[i].type = "result" =>
            LET r == pout[i].result
                a == AssertionsOf(i)
            IN /\ r.Total = Str(Len(a))
               /\ r.Positives = Str(TrueVerdicts(a))
               /\ 0 <= r.Positives.str
               /\ r.Positives.str <= r.Total.str
               /\ pcmd.command \in UrlCommands =>
                     /\ r.Score = "SUSPICIOUS" <=> r.Positives.str > 0
                     /\ r.Score = "GOOD" <=> r.Positives.str = 0

\* a url result with an abstention beside a true verdict
AbstentionNotPositive ==
    /\ ppc = "done"
    /\ pcmd.command = "url"
    /\ pout # << >>
    /\ pout[1].type = "result"
    /\ scanned[1] = <<"true", "none">>
    /\ pout[1].result.Positives = Str(1)
    /\ pout[1].result.Score = "SUSPICIOUS"

\* C26: at the end of an ip command, every artifact of the list that is
\* not an IP address was never submitted to the scan service, and the
\* invocation has ended in the one error 'Invalid IP Address' with no
\* result reported.
InvalidIpNeverSubmitted ==
    (ppc = "done" /\ pcmd.command = "ip") =>
        \A i \in DOMAIN pcmd.artifacts :
            pcmd.artifacts[i] # "ip" =>
                /\ i \notin submitted
                /\ pout = <<[type |-> "error", text |-> "Invalid IP Address",
                             result |-> NoResult]>>

====
